---- MODULE Spec2Model ----
(***************************************************************************)
(* LogQueryBuilder (src/src/query_builder.py): an incremental builder of a *)
(* parameterized SELECT over token_logs.                                   *)
(*                                                                         *)
(* Representation.                                                         *)
(*  - A Python str that the code inspects character by character (function *)
(*    names, date strings) is a sequence of one-character strings.         *)
(*  - SQL text is a sequence of tokens; every '?' placeholder is a token   *)
(*    of its own, so that placeholders can be counted and located.         *)
(*  - A Python value carries its dynamic type: <<"str", chars>>,           *)
(*    <<"int", n>>, <<"float", n>>, <<"None">>.                            *)
(*  - A Python list is an object on the heap; a variable or a returned *)
(*    value holds a reference (object id) to it, not its contents.         *)
(***************************************************************************)
EXTENDS Integers, Sequences, FiniteSets, TLC

VARIABLES
    conditions,  \* self.conditions: the list of fragments
    parameters,  \* self.parameters: a reference to a list object
    heap,        \* the list objects: object id -> contents
    ret,         \* the last call: operation, arguments, and what it returned or raised
    held,        \* the pair the first successful build returned, with the contents
                 \* its parameter list had at that moment (kept by the caller)
    added,       \* history: the filters added so far, in order
    nBuilds      \* history: the number of build calls so far

vars == <<conditions, parameters, heap, ret, held, added, nBuilds>>

(***************************************************************************)
(* Bounds of the exploration.                                              *)
(***************************************************************************)
MaxFilters == 2   \* successful add_* calls on one builder
MaxBuilds == 2    \* build calls on one builder
MaxNameLen == 2   \* length of a function_name argument

(***************************************************************************)
(* Python values.                                                          *)
(***************************************************************************)
None == <<"None">>
PyInt(n) == <<"int", n>>
PyFloat(n) == <<"float", n>>
PyStr(chars) == <<"str", chars>>

\* Object id of the list created by `self.parameters = []`.
ParametersObj == 1

(***************************************************************************)
(* Inputs.                                                                 *)
(***************************************************************************)
Chars == {"a", "'", "\"", ";", "\\", " "}

RECURSIVE SeqsUpTo(_, _)
SeqsUpTo(S, n) ==
    IF n = 0 THEN {<<>>}
    ELSE LET shorter == SeqsUpTo(S, n - 1)
         IN  shorter \cup {Append(s, c) : s \in shorter, c \in S}

\* Every function_name of at most MaxNameLen characters.
NameInputs == SeqsUpTo(Chars, MaxNameLen)

\* A few function_name arguments: clean, quoted and padded, unsanitizable.
NameSamples == { <<"a">>, <<" ", "a", "'">>, <<"'", ";">> }

DateInputs ==
    { <<"2", "0", "2", "4", "-", "0", "1", "-", "1", "5">>,
      <<"2", "0", "2", "4", "-", "0", "2", "-", "2", "9">>,
      <<"0", "1", "/", "1", "5", "/", "2", "0", "2", "4">> }

TokenInputs == {5, 10}
CostInputs == {1, 2}
LimitInputs == {None, PyInt(-1), PyInt(0), PyInt(3)}

(***************************************************************************)
(* re.sub(r'[\'";\\]', '', value) followed by str.strip()                  *)
(***************************************************************************)
SqlChars == {"'", "\"", ";", "\\"}
Whitespace == {" "}

ReSub(value) == SelectSeq(value, LAMBDA c : c \notin SqlChars)

RECURSIVE LStrip(_)
LStrip(s) ==
    IF s # <<>> /\ Head(s) \in Whitespace THEN LStrip(Tail(s)) ELSE s

RECURSIVE RStrip(_)
RStrip(s) ==
    IF s # <<>> /\ s[Len(s)] \in Whitespace
    THEN RStrip(SubSeq(s, 1, Len(s) - 1))
    ELSE s

Strip(s) == RStrip(LStrip(s))

\* Variant: the surrounding whitespace is left in place.
sanitize_string_NoStrip(value) == ReSub(value)

_sanitize_string(value) == Strip(ReSub(value))

(***************************************************************************)
(* datetime.fromisoformat on a calendar-date string YYYY-MM-DD             *)
(***************************************************************************)
Digits == <<"0", "1", "2", "3", "4", "5", "6", "7", "8", "9">>

IsDigit(c) == \E i \in 1..10 : Digits[i] = c

DigitVal(c) == (CHOOSE i \in 1..10 : Digits[i] = c) - 1

RECURSIVE Number(_)
Number(s) ==
    IF s = <<>> THEN 0
    ELSE 10 * Number(SubSeq(s, 1, Len(s) - 1)) + DigitVal(s[Len(s)])

IsLeap(y) == (y % 4 = 0) /\ ((y % 100 # 0) \/ (y % 400 = 0))

DaysInMonth(y, m) ==
    IF m = 2 THEN (IF IsLeap(y) THEN 29 ELSE 28)
    ELSE IF m \in {4, 6, 9, 11} THEN 30 ELSE 31

FromIsoFormatOk(s) ==
    /\ Len(s) = 10
    /\ s[5] = "-" /\ s[8] = "-"
    /\ \A i \in {1, 2, 3, 4, 6, 7, 9, 10} : IsDigit(s[i])
    /\ LET y == Number(SubSeq(s, 1, 4))
           m == Number(SubSeq(s, 6, 7))
           d == Number(SubSeq(s, 9, 10))
       IN  /\ y >= 1
           /\ m \in 1..12
           /\ d \in 1..DaysInMonth(y, m)

_validate_date(date_str) == FromIsoFormatOk(date_str)

_validate_numeric_range(min_val, max_val) == min_val <= max_val

(***************************************************************************)
(* SQL text                                                                *)
(***************************************************************************)
DateFragment == <<"timestamp BETWEEN ", "?", " AND ", "?">>
FunctionFragment == <<"function_name = ", "?">>
TokenFragment == <<"total_tokens BETWEEN ", "?", " AND ", "?">>
CostFragment == <<"cost BETWEEN ", "?", " AND ", "?">>

SelectClause ==
    <<"SELECT timestamp, function_name, prompt_tokens, completion_tokens, total_tokens, cost, output FROM token_logs">>
WhereKeyword == <<" WHERE ">>
AndSeparator == <<" AND ">>
OrderByClause == <<" ORDER BY timestamp DESC">>
LimitClause == <<" LIMIT ", "?">>

\* sep.join(parts)
RECURSIVE Join(_, _)
Join(sep, parts) ==
    IF parts = <<>> THEN <<>>
    ELSE IF Len(parts) = 1 THEN parts[1]
    ELSE parts[1] \o sep \o Join(sep, Tail(parts))

\* Variant: `if limit is not None:`
Truthy_NotNone(limit) == limit # None

\* Truth value of `limit` in `if limit:`
Truthy(limit) == limit # None /\ limit[2] # 0

\* `limit is not None and limit < 0`
NegativeLimit(limit) == limit # None /\ limit[2] < 0

\* The text assembled by build, lines 157-165.
QueryText(conds, limit) ==
    SelectClause
        \o (IF conds # <<>> THEN WhereKeyword \o Join(AndSeparator, conds) ELSE <<>>)
        \o OrderByClause
        \o (IF Truthy(limit) THEN LimitClause ELSE <<>>)

(***************************************************************************)
(* The builder                                                             *)
(***************************************************************************)
NoQuery == <<>>
NoRef == 0
NoPair == [query |-> NoQuery, params |-> NoRef, seen |-> <<>>]

Raised(op, args) ==
    [op |-> op, args |-> args, outcome |-> "ValueError", query |-> NoQuery, params |-> NoRef]

ReturnedSelf(op, args) ==
    [op |-> op, args |-> args, outcome |-> "self", query |-> NoQuery, params |-> NoRef]

ReturnedPair(op, args, query, ref) ==
    [op |-> op, args |-> args, outcome |-> "tuple", query |-> query, params |-> ref]

\* list.append / list.extend on the list object `ref`
Extend(h, ref, values) == [h EXCEPT ![ref] = @ \o values]

Init ==
    /\ conditions = <<>>
    /\ parameters = ParametersObj
    /\ heap = [o \in {ParametersObj} |-> <<>>]
    /\ ret = [op |-> "__init__", args |-> <<>>, outcome |-> "None", query |-> NoQuery, params |-> NoRef]
    /\ held = NoPair
    /\ added = <<>>
    /\ nBuilds = 0

add_date_range(start_date, end_date) ==
    /\ Len(added) < MaxFilters
    /\ IF ~(_validate_date(start_date) /\ _validate_date(end_date))
       THEN /\ ret' = Raised("add_date_range", <<PyStr(start_date), PyStr(end_date)>>)
            /\ UNCHANGED <<conditions, parameters, heap, held, added, nBuilds>>
       ELSE /\ conditions' = Append(conditions, DateFragment)
            /\ heap' = Extend(heap, parameters, <<PyStr(start_date), PyStr(end_date)>>)
            /\ ret' = ReturnedSelf("add_date_range", <<PyStr(start_date), PyStr(end_date)>>)
            /\ added' = Append(added, [op |-> "add_date_range", params |-> <<PyStr(start_date), PyStr(end_date)>>])
            /\ UNCHANGED <<parameters, held, nBuilds>>

add_function_filter(function_name) ==
    /\ Len(added) < MaxFilters
    /\ LET sanitized_name == _sanitize_string(function_name)
       IN  IF sanitized_name = <<>>
           THEN /\ ret' = Raised("add_function_filter", <<PyStr(function_name)>>)
                /\ UNCHANGED <<conditions, parameters, heap, held, added, nBuilds>>
           ELSE /\ conditions' = Append(conditions, FunctionFragment)
                /\ heap' = Extend(heap, parameters, <<PyStr(sanitized_name)>>)
                /\ ret' = ReturnedSelf("add_function_filter", <<PyStr(function_name)>>)
                /\ added' = Append(added, [op |-> "add_function_filter",
                                           params |-> <<PyStr(sanitized_name)>>])
                /\ UNCHANGED <<parameters, held, nBuilds>>

\* Variant: the fragment is appended before the range is validated.
add_token_range_AppendsFirst(min_tokens, max_tokens) ==
    /\ Len(added) < MaxFilters
    /\ conditions' = Append(conditions, TokenFragment)
    /\ IF ~_validate_numeric_range(min_tokens, max_tokens)
       THEN /\ ret' = Raised("add_token_range", <<PyInt(min_tokens), PyInt(max_tokens)>>)
            /\ added' = Append(added, [op |-> "add_token_range", params |-> <<>>])
            /\ UNCHANGED <<parameters, heap, held, nBuilds>>
       ELSE /\ heap' = Extend(heap, parameters, <<PyInt(min_tokens), PyInt(max_tokens)>>)
            /\ ret' = ReturnedSelf("add_token_range", <<PyInt(min_tokens), PyInt(max_tokens)>>)
            /\ added' = Append(added, [op |-> "add_token_range",
                                       params |-> <<PyInt(min_tokens), PyInt(max_tokens)>>])
            /\ UNCHANGED <<parameters, held, nBuilds>>

add_token_range(min_tokens, max_tokens) ==
    /\ Len(added) < MaxFilters
    /\ IF ~_validate_numeric_range(min_tokens, max_tokens)
       THEN /\ ret' = Raised("add_token_range", <<PyInt(min_tokens), PyInt(max_tokens)>>)
            /\ UNCHANGED <<conditions, parameters, heap, held, added, nBuilds>>
       ELSE /\ conditions' = Append(conditions, TokenFragment)
            /\ heap' = Extend(heap, parameters, <<PyInt(min_tokens), PyInt(max_tokens)>>)
            /\ ret' = ReturnedSelf("add_token_range", <<PyInt(min_tokens), PyInt(max_tokens)>>)
            /\ added' = Append(added, [op |-> "add_token_range", params |-> <<PyInt(min_tokens), PyInt(max_tokens)>>])
            /\ UNCHANGED <<parameters, held, nBuilds>>

\* Variant: only min_cost is appended to the parameters.
add_cost_range_DropsMax(min_cost, max_cost) ==
    /\ Len(added) < MaxFilters
    /\ IF ~_validate_numeric_range(min_cost, max_cost)
       THEN /\ ret' = Raised("add_cost_range", <<PyFloat(min_cost), PyFloat(max_cost)>>)
            /\ UNCHANGED <<conditions, parameters, heap, held, added, nBuilds>>
       ELSE /\ conditions' = Append(conditions, CostFragment)
            /\ heap' = Extend(heap, parameters, <<PyFloat(min_cost)>>)
            /\ ret' = ReturnedSelf("add_cost_range", <<PyFloat(min_cost), PyFloat(max_cost)>>)
            /\ added' = Append(added, [op |-> "add_cost_range",
                                       params |-> <<PyFloat(min_cost), PyFloat(max_cost)>>])
            /\ UNCHANGED <<parameters, held, nBuilds>>

add_cost_range(min_cost, max_cost) ==
    /\ Len(added) < MaxFilters
    /\ IF ~_validate_numeric_range(min_cost, max_cost)
       THEN /\ ret' = Raised("add_cost_range", <<PyFloat(min_cost), PyFloat(max_cost)>>)
            /\ UNCHANGED <<conditions, parameters, heap, held, added, nBuilds>>
       ELSE /\ conditions' = Append(conditions, CostFragment)
            /\ heap' = Extend(heap, parameters, <<PyFloat(min_cost), PyFloat(max_cost)>>)
            /\ ret' = ReturnedSelf("add_cost_range", <<PyFloat(min_cost), PyFloat(max_cost)>>)
            /\ added' = Append(added, [op |-> "add_cost_range", params |-> <<PyFloat(min_cost), PyFloat(max_cost)>>])
            /\ UNCHANGED <<parameters, held, nBuilds>>

\* Variant: a successful build empties the conditions.
build_ClearsConditions(limit) ==
    /\ nBuilds < MaxBuilds
    /\ nBuilds' = nBuilds + 1
    /\ IF NegativeLimit(limit)
       THEN /\ ret' = Raised("build", <<limit>>)
            /\ UNCHANGED <<conditions, parameters, heap, held, added>>
       ELSE LET query == QueryText(conditions, limit)
            IN  /\ heap' = IF Truthy(limit) THEN Extend(heap, parameters, <<limit>>) ELSE heap
                /\ ret' = ReturnedPair("build", <<limit>>, query, parameters)
                /\ held' = IF held = NoPair
                            THEN [query |-> query, params |-> parameters,
                                  seen |-> heap'[parameters]]
                            ELSE held
                /\ conditions' = <<>>
                /\ UNCHANGED <<parameters, added>>

build(limit) ==
    /\ nBuilds < MaxBuilds
    /\ nBuilds' = nBuilds + 1
    /\ IF NegativeLimit(limit)
       THEN /\ ret' = Raised("build", <<limit>>)
            /\ UNCHANGED <<conditions, parameters, heap, held, added>>
       ELSE LET query == QueryText(conditions, limit)
            IN  /\ heap' = IF Truthy(limit) THEN Extend(heap, parameters, <<limit>>) ELSE heap
                /\ ret' = ReturnedPair("build", <<limit>>, query, parameters)
                /\ held' = IF held = NoPair
                            THEN [query |-> query, params |-> parameters,
                                  seen |-> heap'[parameters]]
                            ELSE held
                /\ UNCHANGED <<conditions, parameters, added>>

Next ==
    \/ \E s \in DateInputs, e \in DateInputs : add_date_range(s, e)
    \/ \E n \in NameSamples : add_function_filter(n)
    \/ \E lo \in TokenInputs, hi \in TokenInputs : add_token_range(lo, hi)
    \/ \E lo \in CostInputs, hi \in CostInputs : add_cost_range(lo, hi)
    \/ \E l \in LimitInputs : build(l)

Spec == Init /\ [][Next]_vars

\* A caller that filters by function name only, with every name up to MaxNameLen.
NextNames ==
    \/ \E n \in NameInputs : add_function_filter(n)
    \/ build(None)

SpecNames == Init /\ [][NextNames]_vars

(***************************************************************************)
(* Vocabulary of the properties                                            *)
(***************************************************************************)
AddOps == {"add_date_range", "add_function_filter", "add_token_range", "add_cost_range"}

CountPlaceholders(text) == Len(SelectSeq(text, LAMBDA t : t = "?"))

RECURSIVE PlaceholdersIn(_)
PlaceholdersIn(fragments) ==
    IF fragments = <<>> THEN 0
    ELSE CountPlaceholders(Head(fragments)) + PlaceholdersIn(Tail(fragments))

\* The parameters of the filters f1..fn, in the order the filters were added.
RECURSIVE FilterParams(_)
FilterParams(filters) ==
    IF filters = <<>> THEN <<>>
    ELSE Head(filters).params \o FilterParams(Tail(filters))

\* The parameter a truthy limit adds.
LimitParam(limit) == IF limit # None /\ limit[2] # 0 THEN <<limit>> ELSE <<>>

\* The last call was a build that returned a pair.
BuildReturned == ret.op = "build" /\ ret.outcome = "tuple"

\* The limit of the last build call, and the list it returned as it is now.
GivenLimit == ret.args[1]
ReturnedParams == heap[ret.params]

\* This step is a call of build / of an add_* operation.
BuildStep == ret'.op = "build" /\ nBuilds' = nBuilds + 1
AddStep == ret'.op \in AddOps

\* The arguments of the add_* call r fail that operation's validation.
FailsValidation(r) ==
    CASE r.op = "add_date_range" ->
            ~FromIsoFormatOk(r.args[1][2]) \/ ~FromIsoFormatOk(r.args[2][2])
      [] r.op = "add_function_filter" ->
            \A i \in 1..Len(r.args[1][2]) : r.args[1][2][i] \in SqlChars \cup Whitespace
      [] r.op \in {"add_token_range", "add_cost_range"} ->
            r.args[1][2] > r.args[2][2]

\* The fragment each kind of filter contributes to the WHERE clause.
FragmentOf(filter) ==
    CASE filter.op = "add_date_range" -> <<"timestamp BETWEEN ", "?", " AND ", "?">>
      [] filter.op = "add_function_filter" -> <<"function_name = ", "?">>
      [] filter.op = "add_token_range" -> <<"total_tokens BETWEEN ", "?", " AND ", "?">>
      [] filter.op = "add_cost_range" -> <<"cost BETWEEN ", "?", " AND ", "?">>

RECURSIVE WhereBody(_)
WhereBody(filters) ==
    IF Len(filters) = 1 THEN FragmentOf(filters[1])
    ELSE FragmentOf(filters[1]) \o <<" AND ">> \o WhereBody(Tail(filters))

\* The text the specification prescribes for the filters and the limit.
PrescribedText(filters, limit) ==
    <<"SELECT timestamp, function_name, prompt_tokens, completion_tokens, total_tokens, cost, output FROM token_logs">>
        \o (IF filters # <<>> THEN <<" WHERE ">> \o WhereBody(filters) ELSE <<>>)
        \o <<" ORDER BY timestamp DESC">>
        \o (IF LimitParam(limit) # <<>> THEN <<" LIMIT ", "?">> ELSE <<>>)

(***************************************************************************)
(* C1: after any chain of add_* calls on a fresh builder, the first build  *)
(* call, with limit None, 0 or positive, returns a query text with as many *)
(* '?' placeholders as the returned parameter list has elements.           *)
(***************************************************************************)
C1_FirstBuildCountsMatch ==
    (BuildReturned /\ nBuilds = 1) =>
        CountPlaceholders(ret.query) = Len(ReturnedParams)

C1_Witness ==
    /\ BuildReturned /\ nBuilds = 1
    /\ Len(added) = 2
    /\ GivenLimit = PyInt(3)
    /\ CountPlaceholders(ret.query) = 4

(***************************************************************************)
(* C2: in every reachable state the fragments in conditions hold as many   *)
(* '?' placeholders as parameters has elements.                            *)
(***************************************************************************)
C2_PlaceholdersEqualParameters ==
    PlaceholdersIn(conditions) = Len(heap[parameters])

(***************************************************************************)
(* C3: for every build, the WHERE fragments appear in the order the        *)
(* filters were added, the i-th placeholder of the returned text is bound  *)
(* to the i-th returned parameter (the filters' parameters in order, then  *)
(* the limit), and a truthy limit is the last parameter.                   *)
(***************************************************************************)
C3_PlaceholdersBoundInOrder ==
    BuildReturned =>
        LET bound == FilterParams(added) \o LimitParam(GivenLimit)
        IN  /\ ret.query = PrescribedText(added, GivenLimit)
            /\ \A i \in 1..CountPlaceholders(ret.query) :
                   /\ i <= Len(ReturnedParams)
                   /\ ReturnedParams[i] = bound[i]
            /\ LimitParam(GivenLimit) # <<>> =>
                   ReturnedParams[Len(ReturnedParams)] = GivenLimit

(***************************************************************************)
(* C4: an add_* call whose arguments fail validation raises ValueError and *)
(* leaves conditions and parameters exactly as they were, whatever the     *)
(* builder held before.                                                    *)
(***************************************************************************)
C4_FailedAddChangesNothing ==
    [][(AddStep /\ FailsValidation(ret')) =>
           /\ ret'.outcome = "ValueError"
           /\ conditions' = conditions
           /\ parameters' = parameters
           /\ heap' = heap]_vars

C4_Witness ==
    /\ ret.op = "add_token_range"
    /\ ret.args = <<PyInt(10), PyInt(5)>>
    /\ ret.outcome = "ValueError"
    /\ Len(conditions) = 1
    /\ Len(heap[parameters]) > 0

(***************************************************************************)
(* C5: the parameter list a build returned never changes afterwards: it    *)
(* keeps the contents it had when it was returned.                         *)
(***************************************************************************)
C5_ReturnedListKeepsContents ==
    held # NoPair => heap[held.params] = held.seen

(***************************************************************************)
(* C6: every build, also on a builder that was built before, returns a     *)
(* parameter list aligned with the placeholders of its text: the same      *)
(* count, the filters' values in order, then that call's limit.            *)
(***************************************************************************)
C6_EveryBuildAligned ==
    BuildReturned =>
        /\ CountPlaceholders(ret.query) = Len(ReturnedParams)
        /\ ReturnedParams = FilterParams(added) \o LimitParam(GivenLimit)

(***************************************************************************)
(* C7: build with a negative limit raises ValueError and changes neither   *)
(* conditions nor parameters; with limit 0, as with None, the text has no  *)
(* LIMIT clause and no parameter is appended; with a positive limit the    *)
(* text ends in ' LIMIT ?' and exactly the limit is appended.              *)
(***************************************************************************)
C7_LimitCases ==
    [][BuildStep =>
        LET limit == ret'.args[1]
            text == ret'.query
        IN  /\ (limit # None /\ limit[2] < 0) =>
                   /\ ret'.outcome = "ValueError"
                   /\ conditions' = conditions /\ heap' = heap
            /\ (limit = None \/ limit[2] = 0) =>
                   /\ ret'.outcome = "tuple"
                   /\ \A i \in 1..Len(text) : text[i] # " LIMIT "
                   /\ text[Len(text)] = " ORDER BY timestamp DESC"
                   /\ heap' = heap
            /\ (limit # None /\ limit[2] > 0) =>
                   /\ ret'.outcome = "tuple"
                   /\ Len(text) >= 2
                   /\ SubSeq(text, Len(text) - 1, Len(text)) = <<" LIMIT ", "?">>
                   /\ heap'[parameters] = Append(heap[parameters], limit)]_vars

C7_Witness ==
    /\ BuildReturned
    /\ GivenLimit = PyInt(0)
    /\ Len(conditions) = 2
    /\ CountPlaceholders(ret.query) = Len(ReturnedParams)

(***************************************************************************)
(* C8: the returned text is the SELECT, a WHERE clause of the fragments    *)
(* joined by ' AND ' iff a filter was added, the ORDER BY, and ' LIMIT ?'  *)
(* iff the limit is truthy; with no filter the returned parameter list is  *)
(* empty, or holds just the limit when a positive limit is given.          *)
(***************************************************************************)
C8_TextAndUnfilteredParams ==
    BuildReturned =>
        /\ ret.query = PrescribedText(added, GivenLimit)
        /\ added = <<>> => ReturnedParams = LimitParam(GivenLimit)

(***************************************************************************)
(* C9: add_function_filter(name) succeeds iff name holds a character that  *)
(* is neither ' " ; \ nor whitespace around what remains; on success it    *)
(* appends the one fragment 'function_name = ?' and the one parameter, the *)
(* name without those four characters and trimmed, and returns the         *)
(* builder; otherwise it raises ValueError.                                *)
(***************************************************************************)
C9_FunctionFilter ==
    [][ret'.op = "add_function_filter" =>
        LET name == ret'.args[1][2]
            kept == SelectSeq(name, LAMBDA c : c \notin {"'", "\"", ";", "\\"})
            nonBlank == {i \in 1..Len(kept) : kept[i] # " "}
        IN  IF nonBlank = {}
            THEN /\ ret'.outcome = "ValueError"
                 /\ conditions' = conditions /\ heap' = heap
            ELSE LET first == CHOOSE i \in nonBlank : \A j \in nonBlank : i <= j
                     last == CHOOSE i \in nonBlank : \A j \in nonBlank : j <= i
                     stored == heap'[parameters][Len(heap'[parameters])]
                 IN  /\ ret'.outcome = "self"
                     /\ conditions' = Append(conditions, <<"function_name = ", "?">>)
                     /\ heap'[parameters] =
                            Append(heap[parameters], PyStr(SubSeq(kept, first, last)))
                     /\ \A i \in 1..Len(stored[2]) :
                            stored[2][i] \notin {"'", "\"", ";", "\\"}
                     /\ stored[2][1] # " " /\ stored[2][Len(stored[2])] # " "]_vars

C9_Witness ==
    /\ ret.op = "add_function_filter"
    /\ ret.outcome = "self"
    /\ ret.args = << PyStr(<<" ", "a">>) >>
    /\ heap[parameters][Len(heap[parameters])] = PyStr(<<"a">>)
    /\ Len(conditions) = 2

(***************************************************************************)
(* C10: no build changes conditions; a build with limit None or 0 leaves   *)
(* parameters unchanged, so that such a build right after another such     *)
(* build returns the same text and an equal parameter list; a build with a *)
(* truthy limit changes the builder only by appending that limit.          *)
(***************************************************************************)
C10_BuildFrame ==
    [][BuildStep =>
        LET limit == ret'.args[1]
        IN  /\ conditions' = conditions
            /\ parameters' = parameters
            /\ IF ret'.outcome = "tuple" /\ LimitParam(limit) # <<>>
               THEN heap'[parameters] = Append(heap[parameters], limit)
               ELSE heap' = heap
            /\ (BuildReturned /\ LimitParam(GivenLimit) = <<>>
                    /\ ret'.outcome = "tuple" /\ LimitParam(limit) = <<>>) =>
                   /\ ret'.query = ret.query
                   /\ heap'[ret'.params] = heap[ret.params]]_vars

C10_Witness ==
    /\ BuildReturned /\ nBuilds = 2
    /\ LimitParam(GivenLimit) = <<>>
    /\ held.query = ret.query
    /\ held.seen = ReturnedParams
    /\ Len(conditions) = 2

====
